---- MODULE Spec2Model ----
(***************************************************************************)
(* Resource Hub lab core: the Region REST handlers (rhub/api/lab/region.py)*)
(* with the Keycloak groups, the Vault secrets and the lab_region table    *)
(* they act on, Cluster name validation and Product parameter validation   *)
(* (rhub/lab/model.py).                                                    *)
(***************************************************************************)
EXTENDS Integers, Sequences, FiniteSets, TLC

VARIABLES
    regions,      \* committed lab_region rows: id -> row
    next_id,      \* lab_region.id autoincrement
    kc_groups,    \* Keycloak groups: group id -> set of member users
    kc_next,      \* number of the next group Keycloak creates
    vault,        \* Vault: path -> secret
    call,         \* the last handler invocation: [op, region_id, user, body]
    trace,        \* external calls made by the last invocation, in order
    log,          \* records logged by the last invocation, in order
    outcome,      \* how the last invocation ended: return / problem / raise
    listed,       \* ids of the regions the last invocation returned as a list
    cluster_name, \* Cluster.name of one cluster, a sequence of characters; <<>>: not set
    name_value,   \* the value last assigned to Cluster.name
    name_result,  \* what the assignment did: "assigned" or the ValueError raised
    parameters,   \* Product.parameters: the list of parameter declarations
    cluster_params, \* the mapping given to validate_cluster_params
    params_result, \* what validate_cluster_params did: returned, or raised a mapping
    lab_cluster,  \* lab_cluster rows: id -> [region_id, user_id]
    lab_cluster_host, \* lab_cluster_host rows: id -> [cluster_id, num_vcpus, ...]
    usage,        \* the quota usage last computed for one region
    cluster_row, \* one lab_cluster row: status and the two expirations
    cluster_call, \* the last operation on the row: [op, data]
    provision, \* one bare metal provision row
    provision_call, \* the last operation on the provision: [op, data, raised, result]
    launch_cluster, \* the Cluster whose launch variables are computed, with its product_params
    extra_vars \* tower_launch_extra_vars last computed; empty before

region_vars == <<regions, next_id, kc_groups, kc_next, vault, call, trace, log, outcome, listed>>
cluster_vars == <<cluster_name, name_value, name_result>>
product_vars == <<parameters, cluster_params, params_result>>
usage_vars == <<lab_cluster, lab_cluster_host, usage>>
row_vars == <<cluster_row, cluster_call>>
provision_vars == <<provision, provision_call>>
launch_vars == <<launch_cluster, extra_vars>>
vars == <<region_vars, cluster_vars, product_vars, usage_vars, row_vars, provision_vars, launch_vars>>

(***************************************************************************)
(* Bounds                                                                  *)
(***************************************************************************)
\* number of owner groups Keycloak is asked to create in one behaviour
MaxGroups == 1

RegionNames == {"r1", "r2"}
Users == {"root", "alice", "bob"}
Admins == {"root"}
RegionIds == 1..MaxGroups

(***************************************************************************)
(* Values                                                                  *)
(***************************************************************************)
\* a Python str and a Python dict (raw secret material); Absent: key not in body
Str(s) == [type |-> "str", v |-> s]
Dict(s) == [type |-> "dict", v |-> s]
Absent == [type |-> "absent", v |-> ""]
\* a plain body key that is not given, and Python's None
Missing == "<missing>"
None == "None"
\* a nullable integer or timestamp column: NULL, or a value
Null == <<>>
Num(n) == <<n>>

\* Quota rows and quota input: an optional value is a sequence of length <= 1
QuotaData == [num_vcpus |-> 8, ram_mb |-> 16]
NoQuota == <<>>
QuotaAbsent == [present |-> FALSE, data |-> <<>>]
QuotaEmpty == [present |-> TRUE, data |-> <<>>]
QuotaGiven == [present |-> TRUE, data |-> <<QuotaData>>]

VAULT_PATH_PREFIX == "kv/lab/region"

INLINE_CHILDS == <<"openstack", "satellite", "dns_server">>

\* the column an inline child's credential lands in: openstack/credentials ->
\* openstack_credentials, dns_server/key -> dns_server_key
CredColumn(child) ==
    IF child = "dns_server" THEN "dns_server_key" ELSE child \o "_credentials"

isinstance_never(x) == FALSE

isinstance_str(x) == x.type = "str"

VaultPathWrongChild(name, child) == VAULT_PATH_PREFIX \o "/" \o name \o "/" \o "openstack"

VaultPath(name, child) == VAULT_PATH_PREFIX \o "/" \o name \o "/" \o child

(***************************************************************************)
(* External collaborators                                                  *)
(***************************************************************************)
\* an external call: its arguments a, b, whether it succeeded, and for a Vault
\* write the inline child whose credentials are written
Ev(op, a, b, ok) == [op |-> op, a |-> a, b |-> b, ok |-> ok, child |-> ""]
Logged(level, msg) == [level |-> level, msg |-> msg]

Return(v) == [kind |-> "return", value |-> v, context |-> ""]
Problem(status) == [kind |-> "problem", value |-> status, context |-> ""]
Raise(exc, ctx) == [kind |-> "raise", value |-> exc, context |-> ctx]

vault_write(v, path, secret) ==
    [p \in DOMAIN v \cup {path} |-> IF p = path THEN secret ELSE v[p]]

group_create(kc, id) == [g \in DOMAIN kc \cup {id} |-> IF g = id THEN {} ELSE kc[g]]

group_user_add(kc, user, id) == [kc EXCEPT ![id] = @ \cup {user}]

group_delete(kc, id) == [g \in DOMAIN kc \ {id} |-> kc[g]]

user_check_role(user) == user \in Admins

user_check_group(kc, user, group) == group \in DOMAIN kc /\ user \in kc[group]

\* the ids of the groups the user belongs to
user_group_list(kc, user) == {g \in DOMAIN kc : user \in kc[g]}

user_check_group_any(kc, user, groups) == \E g \in groups : user_check_group(kc, user, g)

(***************************************************************************)
(* Handler state: the variables a handler works on, threaded through its   *)
(* steps; a step does nothing once the handler has returned or raised.     *)
(***************************************************************************)
Running == [kind |-> "running", value |-> "", context |-> ""]

NoRow == [name |-> "", description |-> "", owner_group |-> None, users_group |-> None,
          openstack_credentials |-> Absent, satellite_credentials |-> Absent,
          dns_server_key |-> Absent, user_quota |-> NoQuota, total_quota |-> NoQuota]

Begin(body, row) ==
    [regions |-> regions, next_id |-> next_id, kc |-> kc_groups, kc_next |-> kc_next,
     vault |-> vault, trace |-> <<>>, log |-> <<>>, outcome |-> Running,
     listed |-> {}, body |-> body, owners_id |-> None, row |-> row]

Called(h, op, a, b, ok) == [h EXCEPT !.trace = Append(@, Ev(op, a, b, ok))]
VaultCalled(h, child, path, secret, ok) ==
    [h EXCEPT !.trace = Append(@, [Ev("vault_write", path, secret, ok) EXCEPT !.child = child])]
Info(h, msg) == [h EXCEPT !.log = Append(@, Logged("info", msg))]
Exception(h, exc) == [h EXCEPT !.log = Append(@, Logged("exception", exc))]
End(h, out) == [h EXCEPT !.outcome = out]

\* The environment's choice for one invocation: the first external call that
\* fails (later calls are not reached), what it raises, and whether the
\* compensating group_delete after a failed commit fails as well.
Fails(point, kind, comp_fail) == [point |-> point, kind |-> kind, comp_fail |-> comp_fail]
NoFailure == Fails("none", "", FALSE)
\* what a failing Keycloak call raises
KeycloakErrors == {"KeycloakGetError", "Exception"}
KeycloakFailures(points) ==
    {Fails(p, k, FALSE) : p \in points, k \in KeycloakErrors}
VaultFailures ==
    {Fails("vault_" \o INLINE_CHILDS[i], "VaultError", FALSE) : i \in DOMAIN INLINE_CHILDS}
CommitFailure == Fails("commit", "SQLAlchemyError", FALSE)
CompensationFailures == {Fails("commit", k, TRUE) : k \in KeycloakErrors}

truthy(s) == s \notin {Missing, None, ""}

\* region.py 48-54, 182-188: the two except clauses around the owner group calls
keycloak_problem(h, kind) ==
    End(Exception(h, kind), IF kind = "KeycloakGetError" THEN Problem("keycloak")
                                                         ELSE Problem("500"))

\* region.py 38-54
create_owner_group(h, user, fail) ==
    LET gname == h.body.name \o "-owners"
        id == "g" \o ToString(h.kc_next)
        h1 == Info([Called(h, "group_create", gname, id, TRUE)
                        EXCEPT !.kc = group_create(@, id), !.kc_next = @ + 1,
                               !.owners_id = id],
                   "Created owners group")
    IN  IF fail.point = "group_create"
        THEN keycloak_problem(Called(h, "group_create", gname, "", FALSE), fail.kind)
        ELSE IF fail.point = "group_user_add"
        THEN keycloak_problem(Called(h1, "group_user_add", user, id, FALSE), fail.kind)
        ELSE Info([Called(h1, "group_user_add", user, id, TRUE)
                      EXCEPT !.kc = group_user_add(@, user, id)],
                  "Added user to owners group")

\* region.py 56-63 and 120-127
check_users_group(h, fail) ==
    LET g == h.body.users_group IN
    IF h.outcome # Running \/ ~truthy(g) THEN h
    ELSE IF fail.point = "group_get" /\ fail.kind # "KeycloakGetError"
    THEN End(Called(h, "group_get", g, "", FALSE), Raise(fail.kind, ""))
    ELSE IF fail.point = "group_get" \/ g \notin DOMAIN h.kc
    THEN End(Exception(Called(h, "group_get", g, "", FALSE), "KeycloakGetError"),
             Problem("400"))
    ELSE Called(h, "group_get", g, "", TRUE)

create_credential_swallow(h, child, fail) ==
    LET cred == h.body[child]
        path == VaultPath(h.body.name, child)
    IN  IF h.outcome # Running \/ isinstance_str(cred) THEN h
        ELSE IF fail.point = "vault_" \o child
        THEN [VaultCalled(h, child, path, cred.v, FALSE) EXCEPT !.body[child] = Str(path)]
        ELSE [VaultCalled(h, child, path, cred.v, TRUE)
                 EXCEPT !.vault = vault_write(@, path, cred.v),
                        !.body[child] = Str(path)]

\* region.py 65-69, 71-75, 77-81: one inline child's credentials in create_region
create_credential(h, child, fail) ==
    LET cred == h.body[child]
        path == VaultPath(h.body.name, child)
    IN  IF h.outcome # Running \/ isinstance_str(cred) THEN h
        ELSE IF fail.point = "vault_" \o child
        THEN End(VaultCalled(h, child, path, cred.v, FALSE), Raise("VaultError", ""))
        ELSE [VaultCalled(h, child, path, cred.v, TRUE)
                 EXCEPT !.vault = vault_write(@, path, cred.v),
                        !.body[child] = Str(path)]

\* region.py 65-81
create_credentials(h, fail) ==
    create_credential(
        create_credential(
            create_credential(h, INLINE_CHILDS[1], fail),
            INLINE_CHILDS[2], fail),
        INLINE_CHILDS[3], fail)

\* model.py 132-146, utils.py 17-19: Region.from_dict
from_dict(data, owner_group) ==
    [name |-> data.name,
     description |-> IF data.description = Missing THEN "" ELSE data.description,
     owner_group |-> owner_group,
     users_group |-> IF data.users_group = Missing THEN None ELSE data.users_group,
     openstack_credentials |-> data.openstack,
     satellite_credentials |-> data.satellite,
     dns_server_key |-> data.dns_server,
     user_quota |-> data.user_quota.data,
     total_quota |-> data.total_quota.data]

\* model.py 22: lab_region.name is unique
UniqueViolation(regs, id, name) == \E j \in DOMAIN regs \ {id} : regs[j].name = name

\* model.py 100-107, 127-128: to_dict resolves the group names in Keycloak
to_dict(h, row, fail) ==
    IF fail.point = "to_dict"
    THEN End(Called(h, "group_get", row.owner_group, "", FALSE), Raise(fail.kind, ""))
    ELSE IF row.owner_group \notin DOMAIN h.kc
    THEN End(Called(h, "group_get", row.owner_group, "", FALSE),
             Raise("KeycloakGetError", ""))
    ELSE IF truthy(row.users_group) /\ row.users_group \notin DOMAIN h.kc
    THEN End(Called(Called(h, "group_get", row.owner_group, "", TRUE),
                    "group_get", row.users_group, "", FALSE),
             Raise("KeycloakGetError", ""))
    ELSE End(Called(h, "group_get", row.owner_group, "", TRUE), Return("region"))

CompensateNever(h, fail) == End(h, Raise("SQLAlchemyError", ""))

\* region.py 89-92: the commit failed
Compensate(h, fail) ==
    IF fail.comp_fail
    THEN End(Called(h, "group_delete", h.owners_id, "", FALSE),
             Raise(fail.kind, "SQLAlchemyError"))
    ELSE End([Called(h, "group_delete", h.owners_id, "", TRUE)
                 EXCEPT !.kc = group_delete(@, h.owners_id)],
             Raise("SQLAlchemyError", ""))

\* region.py 83-94
create_commit(h, fail) ==
    LET row == from_dict(h.body, h.owners_id)
        id == h.next_id
    IN  IF h.outcome # Running THEN h
        ELSE IF fail.point = "commit" \/ UniqueViolation(h.regions, id, row.name)
        THEN Compensate(Called(h, "commit", row.name, "", FALSE), fail)
        ELSE to_dict(Info([Called(h, "commit", row.name, "", TRUE)
                              EXCEPT !.regions = (id :> row) @@ @, !.next_id = @ + 1,
                                     !.row = row],
                          "Region created"),
                     row, fail)

\* region.py 37-94
create_region(body, user, fail) ==
    create_commit(
        create_credentials(
            check_users_group(
                create_owner_group(Begin(body, NoRow), user, fail),
                fail),
            fail),
        fail)

\* region.py 140-144, 146-150, 152-156: one inline child's credentials in
\* update_region; raw material goes to the path the region already stores
update_credential(h, child, fail) ==
    LET stored == h.row[CredColumn(child)]
        cred == IF h.body[child] = Absent THEN stored ELSE h.body[child]
    IN  IF h.outcome # Running \/ isinstance_str(cred) THEN h
        ELSE IF fail.point = "vault_" \o child
        THEN End(VaultCalled(h, child, stored.v, cred.v, FALSE), Raise("VaultError", ""))
        ELSE [VaultCalled(h, child, stored.v, cred.v, TRUE)
                 EXCEPT !.vault = vault_write(@, stored.v, cred.v),
                        !.body[child] = Absent]

\* region.py 140-156
update_credentials(h, fail) ==
    update_credential(
        update_credential(
            update_credential(h, INLINE_CHILDS[1], fail),
            INLINE_CHILDS[2], fail),
        INLINE_CHILDS[3], fail)

\* model.py 151-160: one of user_quota, total_quota; r is [ok, row]
update_quota(r, data, k) ==
    IF ~r.ok \/ ~data[k].present THEN r
    ELSE IF data[k].data = <<>> THEN [r EXCEPT !.row[k] = NoQuota]
    ELSE IF r.row[k] = NoQuota THEN [r EXCEPT !.row[k] = data[k].data]
    ELSE [r EXCEPT !.ok = FALSE]      \* setattr(self, k) raises TypeError

\* model.py 162-166: one inline child
update_inline(r, data, child) ==
    IF ~r.ok \/ data[child] = Absent THEN r
    ELSE [r EXCEPT !.row[CredColumn(child)] = data[child]]

\* utils.py 21-24: setattr for every remaining key
update_plain(r, data, k) ==
    IF ~r.ok \/ data[k] = Missing THEN r ELSE [r EXCEPT !.row[k] = data[k]]

\* model.py 148-168: Region.update_from_dict
update_from_dict(row, data) ==
    LET r0 == [ok |-> TRUE, row |-> row]
        r1 == update_quota(update_quota(r0, data, "user_quota"), data, "total_quota")
        r2 == update_inline(update_inline(update_inline(r1, data, INLINE_CHILDS[1]),
                                          data, INLINE_CHILDS[2]),
                            data, INLINE_CHILDS[3])
    IN  update_plain(update_plain(update_plain(r2, data, "name"), data, "description"),
                     data, "users_group")

CanWriteAnyone(kc, user, row) == TRUE

\* region.py 116-117, 171-172: admin role or membership in the owner group
CanWrite(kc, user, row) ==
    user_check_role(user) \/ user_check_group(kc, user, row.owner_group)

\* region.py 116-118, 171-173
authorize(h, user) ==
    LET h1 == Called(h, "user_check_role", user, "", TRUE)
        h2 == IF user_check_role(user) THEN h1
              ELSE Called(h1, "user_check_group", user, h.row.owner_group, TRUE)
    IN  IF CanWrite(h.kc, user, h.row) THEN h2
        ELSE End(h2, Raise("Forbidden", ""))

\* region.py 158-163
update_commit(h, id, fail) ==
    LET r == update_from_dict(h.row, h.body) IN
    IF h.outcome # Running THEN h
    ELSE IF ~r.ok THEN End(h, Raise("TypeError", ""))
    ELSE IF fail.point = "commit" \/ UniqueViolation(h.regions, id, r.row.name)
    THEN End(Called(h, "commit", r.row.name, "", FALSE), Raise("SQLAlchemyError", ""))
    ELSE to_dict(Info([Called(h, "commit", r.row.name, "", TRUE)
                          EXCEPT !.regions[id] = r.row, !.row = r.row],
                      "Region updated"),
                 r.row, fail)

\* region.py 111-163
update_region(region_id, body, user, fail) ==
    IF region_id \notin DOMAIN regions
    THEN End(Begin(body, NoRow), Problem("404"))
    ELSE update_commit(
             update_credentials(
                 check_users_group(
                     authorize(Begin(body, regions[region_id]), user),
                     fail),
                 fail),
             region_id, fail)

delete_owner_group_continue(h, fail) ==
    LET g == h.row.owner_group IN
    IF h.outcome # Running THEN h
    ELSE IF fail.point = "group_get" \/ g \notin DOMAIN h.kc
    THEN Exception(Called(h, "group_get", g, "", FALSE), "KeycloakGetError")
    ELSE IF fail.point = "group_delete"
    THEN Exception(Called(Called(h, "group_get", g, "", TRUE),
                          "group_delete", g, "", FALSE), fail.kind)
    ELSE Info([Called(Called(h, "group_get", g, "", TRUE), "group_delete", g, "", TRUE)
                  EXCEPT !.kc = group_delete(@, g)],
              "Deleted owners group")

\* region.py 177-188: look the owner group up and delete it
delete_owner_group(h, fail) ==
    LET g == h.row.owner_group IN
    IF h.outcome # Running THEN h
    ELSE IF fail.point = "group_get"
    THEN keycloak_problem(Called(h, "group_get", g, "", FALSE), fail.kind)
    ELSE IF g \notin DOMAIN h.kc
    THEN keycloak_problem(Called(h, "group_get", g, "", FALSE), "KeycloakGetError")
    ELSE IF fail.point = "group_delete"
    THEN keycloak_problem(Called(Called(h, "group_get", g, "", TRUE),
                                 "group_delete", g, "", FALSE), fail.kind)
    ELSE Info([Called(Called(h, "group_get", g, "", TRUE), "group_delete", g, "", TRUE)
                  EXCEPT !.kc = group_delete(@, g)],
              "Deleted owners group")

\* region.py 175, 190-191: the pending deletion is committed
delete_commit(h, id, fail) ==
    IF h.outcome # Running THEN h
    ELSE IF fail.point = "commit"
    THEN End(Called(h, "commit", h.row.name, "", FALSE), Raise("SQLAlchemyError", ""))
    ELSE End(Info([Called(h, "commit", h.row.name, "", TRUE)
                      EXCEPT !.regions = [j \in DOMAIN @ \ {id} |-> @[j]]],
                  "Region deleted"),
             Return("None"))

\* region.py 166-191
delete_region(region_id, body, user, fail) ==
    IF region_id \notin DOMAIN regions
    THEN End(Begin(body, NoRow), Problem("404"))
    ELSE delete_commit(
             delete_owner_group(authorize(Begin(body, regions[region_id]), user),
                                fail),
             region_id, fail)

\* region.py 28-32: the rows the non-admin query selects
region_filter(regs, user_groups) ==
    {id \in DOMAIN regs :
        \/ regs[id].users_group = None
        \/ regs[id].users_group \in user_groups
        \/ regs[id].owner_group \in user_groups}

\* region.py 34: to_dict of each selected row, in id order; the first one that
\* raises ends the handler
RECURSIVE to_dict_each(_, _, _)
to_dict_each(h, ids, fail) ==
    IF ids = {} THEN End(h, Return("regions"))
    ELSE LET id == CHOOSE i \in ids : \A j \in ids : i <= j
             h1 == to_dict(h, h.regions[id], fail)
         IN  IF h1.outcome.kind = "raise" THEN h1
             ELSE to_dict_each(End(h1, Running), ids \ {id}, fail)

\* region.py 23-34
list_regions(body, user, fail) ==
    LET h == Called(Begin(body, NoRow), "user_check_role", user, "", TRUE)
        ids == IF user_check_role(user) THEN DOMAIN regions
               ELSE region_filter(regions, user_group_list(kc_groups, user))
        h1 == to_dict_each(IF user_check_role(user) THEN h
                           ELSE Called(h, "user_group_list", user, "", TRUE),
                           ids, fail)
    IN  IF h1.outcome.kind = "return" THEN [h1 EXCEPT !.listed = ids] ELSE h1

\* region.py 102-106: Forbidden unless the region is open or the user may read it
authorize_read(h, user) ==
    LET h1 == Called(h, "user_check_role", user, "", TRUE)
        h2 == Called(h1, "user_check_group_any", user, h.row.users_group, TRUE)
    IN  IF h.row.users_group = None THEN h
        ELSE IF user_check_role(user) THEN h1
        ELSE IF user_check_group_any(h.kc, user, {h.row.users_group, h.row.owner_group})
        THEN h2
        ELSE End(h2, Raise("Forbidden", ""))

\* region.py 97-108
get_region(region_id, body, user, fail) ==
    IF region_id \notin DOMAIN regions
    THEN End(Begin(body, NoRow), Problem("404"))
    ELSE LET h == authorize_read(Begin(body, regions[region_id]), user) IN
         IF h.outcome # Running THEN h ELSE to_dict(h, h.row, fail)

(***************************************************************************)
(* Requests                                                                *)
(***************************************************************************)
Secret == "s3cr3t"
CustomPath == "secret/custom"
UsersGroups == {"ug", "nogroup"}
Children == {INLINE_CHILDS[i] : i \in DOMAIN INLINE_CHILDS}

Body(name, description, users_group, creds) ==
    [name |-> name, description |-> description, users_group |-> users_group,
     openstack |-> creds.openstack, satellite |-> creds.satellite,
     dns_server |-> creds.dns_server,
     user_quota |-> QuotaAbsent, total_quota |-> QuotaAbsent]

All(v) == [d \in Children |-> v]
\* child c alone gets `one`, the others `rest`
One(one, rest) == {[d \in Children |-> IF d = c THEN one ELSE rest] : c \in Children}

NoBody == Body(Missing, Missing, Missing, All(Absent))

Apply(op, region_id, user, body, h) ==
    /\ regions' = h.regions
    /\ next_id' = h.next_id
    /\ kc_groups' = h.kc
    /\ kc_next' = h.kc_next
    /\ vault' = h.vault
    /\ call' = [op |-> op, region_id |-> region_id, user |-> user, body |-> body]
    /\ trace' = h.trace
    /\ log' = h.log
    /\ outcome' = h.outcome
    /\ listed' = h.listed
    /\ UNCHANGED <<cluster_vars, product_vars, usage_vars, row_vars, provision_vars, launch_vars>>

NoRegion == 0

NoCluster ==
    /\ cluster_name = <<>>
    /\ name_value = <<>>
    /\ name_result = "none"

NoRegions ==
    /\ regions = <<>>
    /\ next_id = 1
    /\ kc_groups = ("ug" :> {"bob"})
    /\ kc_next = 1
    /\ vault = <<>>
    /\ call = [op |-> "none", region_id |-> NoRegion, user |-> "", body |-> NoBody]
    /\ trace = <<>>
    /\ log = <<>>
    /\ outcome = Running
    /\ listed = {}

NotValidated == [raised |-> "none", invalid |-> <<>>]
NoProduct ==
    /\ parameters = <<>>
    /\ cluster_params = <<>>
    /\ params_result = NotValidated
NotComputed == [region_id |-> NoRegion, total |-> <<>>, user |-> <<>>, cluster |-> <<>>]
NoUsage ==
    /\ lab_cluster = <<>>
    /\ lab_cluster_host = <<>>
    /\ usage = NotComputed
\* no Cluster object yet
NoClusterRow ==
    /\ cluster_row = [created |-> FALSE, status |-> None,
                      reservation_expiration |-> Null, lifespan_expiration |-> Null]
    /\ cluster_call = [op |-> "none", data |-> <<>>, before |-> <<>>]
\* no BareMetalProvision object yet
NoProvision ==
    /\ provision = [created |-> FALSE, id |-> NoRegion, type |-> "", status |-> None, image |-> ""]
    /\ provision_call = [op |-> "none", data |-> <<>>, raised |-> "", result |-> <<>>]
\* no launch variables computed yet
NoLaunch ==
    /\ launch_cluster = [id |-> NoRegion, product_params |-> <<>>]
    /\ extra_vars = <<>>
Init == NoRegions /\ NoCluster /\ NoProduct /\ NoUsage /\ NoClusterRow /\ NoProvision /\ NoLaunch

RowOf(id) == IF id \in DOMAIN regions THEN regions[id] ELSE NoRow
StoredPaths(row) == [d \in Children |-> row[CredColumn(d)]]

(***************************************************************************)
(* Credentials: the owner creates and updates regions, giving each         *)
(* credential as raw material, as a path, or (update) as the path the      *)
(* region stores or not at all; Vault writes and commits may fail.         *)
(***************************************************************************)
CredCreateBodies ==
    {Body(n, Missing, Missing, c) :
        n \in RegionNames,
        c \in {All(Dict(Secret)), All(Str(CustomPath))} \cup One(Dict(Secret), Str(CustomPath))}

CredUpdateBodies(row) ==
    {Body(Missing, "d", Missing, c) :
        c \in {All(Absent), All(Dict(Secret)), StoredPaths(row)}
              \cup One(Dict(Secret), Absent)
              \cup {[StoredPaths(row) EXCEPT ![d] = Dict(Secret)] : d \in Children}}

CredFailures == {NoFailure, CommitFailure} \cup VaultFailures

CredCreate ==
    /\ kc_next <= MaxGroups
    /\ \E body \in CredCreateBodies, fail \in CredFailures :
          Apply("create_region", NoRegion, "alice", body, create_region(body, "alice", fail))

CredUpdate ==
    \E id \in RegionIds, fail \in CredFailures :
        \E body \in CredUpdateBodies(RowOf(id)) :
            Apply("update_region", id, "alice", body, update_region(id, body, "alice", fail))

CredDelete ==
    \E id \in RegionIds :
        Apply("delete_region", id, "alice", NoBody, delete_region(id, NoBody, "alice", NoFailure))

NextCredentials == CredCreate \/ CredUpdate \/ CredDelete

SpecCredentials == Init /\ [][NextCredentials]_vars

(***************************************************************************)
(* Authorization: any user updates or deletes regions created by alice.    *)
(***************************************************************************)
AuthCreateBodies ==
    {Body(n, Missing, g, All(Dict(Secret))) : n \in RegionNames, g \in {Missing, "ug"}}

AuthUpdateBodies ==
    {Body(Missing, "d", g, c) : g \in {Missing, None, "ug"},
                                c \in {All(Absent), All(Dict(Secret))}}

AuthCreate ==
    /\ kc_next <= MaxGroups
    /\ \E body \in AuthCreateBodies :
          Apply("create_region", NoRegion, "alice", body,
                create_region(body, "alice", NoFailure))

AuthUpdate ==
    \E id \in RegionIds, user \in Users, body \in AuthUpdateBodies :
        Apply("update_region", id, user, body, update_region(id, body, user, NoFailure))

AuthDelete ==
    \E id \in RegionIds, user \in Users, fail \in {NoFailure, CommitFailure} :
        Apply("delete_region", id, user, NoBody, delete_region(id, NoBody, user, fail))

NextAuthorization == AuthCreate \/ AuthUpdate \/ AuthDelete

SpecAuthorization == Init /\ [][NextAuthorization]_vars

(***************************************************************************)
(* Failures: every external call of create_region and delete_region may    *)
(* fail.                                                                   *)
(***************************************************************************)
FailCreateBodies ==
    {Body(n, Missing, g, c) : n \in RegionNames, g \in {Missing} \cup UsersGroups,
                              c \in {All(Dict(Secret)), All(Str(CustomPath))}}

CreateFailures ==
    {NoFailure, CommitFailure} \cup VaultFailures \cup CompensationFailures
        \cup KeycloakFailures({"group_create", "group_user_add", "group_get", "to_dict"})
DeleteFailures ==
    {NoFailure, CommitFailure} \cup KeycloakFailures({"group_get", "group_delete"})

FailCreate ==
    /\ kc_next <= MaxGroups
    /\ \E body \in FailCreateBodies, user \in Users, fail \in CreateFailures :
          Apply("create_region", NoRegion, user, body, create_region(body, user, fail))

FailDelete ==
    \E id \in RegionIds, user \in {"root", "alice"}, fail \in DeleteFailures :
        Apply("delete_region", id, user, NoBody, delete_region(id, NoBody, user, fail))

NextFailures == FailCreate \/ FailDelete

SpecFailures == Init /\ [][NextFailures]_vars

(***************************************************************************)
(* Properties of the Region handlers                                       *)
(***************************************************************************)
Calls(op) == {i \in DOMAIN trace : trace[i].op = op}
Failed(op) == \E i \in Calls(op) : ~trace[i].ok
Succeeded(op) == \E i \in Calls(op) : trace[i].ok
\* the secret store's namespace for a region's credentials
NamespacedPath(name, child) == "kv/lab/region/" \o name \o "/" \o child
\* the owner group the last create_region got from Keycloak
CreatedGroup == trace[CHOOSE i \in Calls("group_create") : trace[i].ok].b
Persisted(name) == {id \in DOMAIN regions : regions[id].name = name}

\* C1: every credential field of every persisted region is a string path,
\* never raw material; and when create_region is given raw material for a
\* field, the secret is written to kv/lab/region/{name}/{child} before the
\* commit and the committed region stores exactly that path.
C1_CredentialsAreResolvedPaths ==
    /\ \A id \in DOMAIN regions, d \in Children : regions[id][CredColumn(d)].type = "str"
    /\ call.op = "create_region" =>
        \A d \in Children :
            call.body[d].type = "dict" =>
                /\ \A j \in Calls("commit") :
                      \E i \in 1..(j - 1) :
                          /\ trace[i].op = "vault_write" /\ trace[i].ok
                          /\ trace[i].a = NamespacedPath(call.body.name, d)
                          /\ trace[i].b = call.body[d].v
                /\ Succeeded("commit") =>
                      /\ vault[NamespacedPath(call.body.name, d)] = call.body[d].v
                      /\ \E id \in Persisted(call.body.name) :
                            regions[id][CredColumn(d)] = Str(NamespacedPath(call.body.name, d))

\* a create given raw satellite credentials and an openstack path has committed
C1_Witness ==
    /\ call.op = "create_region" /\ outcome.kind = "return"
    /\ call.body.satellite.type = "dict" /\ call.body.openstack.type = "str"
    /\ \E id \in Persisted(call.body.name) :
          /\ regions[id].satellite_credentials = Str(NamespacedPath(call.body.name, "satellite"))
          /\ regions[id].openstack_credentials = call.body.openstack

\* C2: for each credential field, when create_region or update_region is
\* given a string for it, no secret-store write is made for that field.
C2_NoWriteForResolvedPath ==
    call.op \in {"create_region", "update_region"} =>
        \A d \in Children :
            call.body[d].type = "str" =>
                ~\E i \in Calls("vault_write") : trace[i].child = d

\* an update resubmits the path an earlier create returned for raw material
C2_Witness ==
    /\ call.op = "update_region" /\ outcome.kind = "return"
    /\ call.region_id \in DOMAIN regions
    /\ \E d \in Children :
          /\ call.body[d] = Str(NamespacedPath(regions[call.region_id].name, d))
          /\ NamespacedPath(regions[call.region_id].name, d) \in DOMAIN vault
          /\ regions[call.region_id][CredColumn(d)] = call.body[d]
    /\ Calls("vault_write") = {}

\* C3 as claimed: after a failed commit in create_region the owner group is
\* deleted in the identity provider before the error reaches the caller, and
\* after a successful commit group_delete is never called.
C3_GroupDeletedAfterFailedCommit ==
    call.op = "create_region" =>
        /\ Failed("commit") => CreatedGroup \notin DOMAIN kc_groups
        /\ Succeeded("commit") => Calls("group_delete") = {}

\* C3 as amended: after a failed commit in create_region, group_delete is
\* called for the owner group before the error is raised, and the group is
\* gone whenever that call succeeds; after a successful commit group_delete
\* is never called.
C3_GroupDeleteCalledAfterFailedCommit ==
    call.op = "create_region" =>
        /\ Failed("commit") =>
              /\ outcome.kind = "raise"
              /\ \E j \in Calls("group_delete") :
                    /\ trace[j].a = CreatedGroup
                    /\ \E i \in Calls("commit") : i < j
                    /\ trace[j].ok => CreatedGroup \notin DOMAIN kc_groups
        /\ Succeeded("commit") => Calls("group_delete") = {}

\* a create whose commit failed has deleted its owner group and raised
C3_Witness ==
    /\ call.op = "create_region" /\ Failed("commit") /\ Succeeded("group_delete")
    /\ CreatedGroup \notin DOMAIN kc_groups
    /\ outcome = Raise("SQLAlchemyError", "")

\* C4: whenever create_region fails after the owner group was created, the
\* group does not remain in the identity provider.
C4_FailedCreateLeavesNoGroup ==
    (/\ call.op = "create_region"
     /\ Succeeded("group_create")
     /\ outcome.kind \in {"problem", "raise"}
     /\ \/ Failed("group_user_add")
        \/ Failed("group_get") /\ Calls("commit") = {}
        \/ Failed("vault_write")
        \/ Failed("commit") /\ ~Failed("group_delete"))
        => CreatedGroup \notin DOMAIN kc_groups

\* C5: when the commit and the compensating group deletion both fail, the
\* compensation failure is logged and both failures reach the caller.
C5_CompensationFailureLoggedAndSurfaced ==
    (call.op = "create_region" /\ Failed("commit") /\ Failed("group_delete")) =>
        /\ \E i \in DOMAIN log : log[i].level = "exception"
        /\ outcome.kind = "raise"
        /\ outcome.context = "SQLAlchemyError"

\* C6: a failed secret-store write aborts create_region and update_region
\* before any commit: no region is persisted and no persisted field changes.
C6_VaultFailureAbortsBeforeCommit ==
    [][(call'.op \in {"create_region", "update_region"}
        /\ \E i \in DOMAIN trace' : trace'[i].op = "vault_write" /\ ~trace'[i].ok)
       => /\ regions' = regions
          /\ \A i \in DOMAIN trace' : trace'[i].op # "commit"
          /\ outcome'.kind = "raise"]_vars

\* an update that also changes the description wrote one credential, failed
\* on the next, and left the region as it was
C6_Witness ==
    /\ call.op = "update_region" /\ Failed("vault_write") /\ Succeeded("vault_write")
    /\ call.body.description = "d"
    /\ call.region_id \in DOMAIN regions
    /\ regions[call.region_id].description = ""

\* neither the admin role nor membership in the region's owner group
Unauthorized(user, row) ==
    /\ user \notin Admins
    /\ row.owner_group \in DOMAIN kc_groups => user \notin kc_groups[row.owner_group]

\* C7: update_region and delete_region called on an existing region by a user
\* with neither the admin role nor membership in its owner group raise
\* Forbidden and do nothing else: no secret-store write, no group lookup or
\* deletion, no change to the region, no commit.
C7_ForbiddenHasNoSideEffects ==
    [][(/\ call'.op \in {"update_region", "delete_region"}
        /\ call'.region_id \in DOMAIN regions
        /\ Unauthorized(call'.user, regions[call'.region_id]))
       => /\ outcome' = Raise("Forbidden", "")
          /\ regions' = regions /\ kc_groups' = kc_groups /\ vault' = vault
          /\ \A i \in DOMAIN trace' :
                trace'[i].op \in {"user_check_role", "user_check_group"}]_vars

\* bob, in no owner group, was refused an update that carried raw credentials
C7_Witness ==
    /\ call.op = "update_region" /\ call.user = "bob"
    /\ call.body.openstack.type = "dict"
    /\ call.region_id \in DOMAIN regions
    /\ outcome = Raise("Forbidden", "")

\* C8: a successful delete_region removes the region row and its owner
\* group; when looking up or deleting the group fails, delete_region returns
\* an error response and commits nothing.
C8_DeleteCascadesOrAborts ==
    [][(call'.op = "delete_region" /\ call'.region_id \in DOMAIN regions)
       => /\ outcome'.kind = "return" =>
                /\ call'.region_id \notin DOMAIN regions'
                /\ regions[call'.region_id].owner_group \notin DOMAIN kc_groups'
          /\ (\E i \in DOMAIN trace' :
                 trace'[i].op \in {"group_get", "group_delete"} /\ ~trace'[i].ok)
             => /\ outcome'.kind = "problem"
                /\ regions' = regions
                /\ \A i \in DOMAIN trace' : trace'[i].op # "commit"]_vars

\* a region and its owner group are gone after a delete
C8_Witness ==
    /\ call.op = "delete_region" /\ outcome = Return("None")
    /\ Succeeded("group_delete") /\ Succeeded("commit")
    /\ regions = <<>>
    /\ DOMAIN kc_groups = {"ug"}

\* the owner groups create_region has created that exist in Keycloak
OwnerGroupsInKeycloak ==
    {"g" \o ToString(i) : i \in 1..(kc_next - 1)} \cap DOMAIN kc_groups
\* the owner groups persisted regions refer to
OwnerGroupsOfRegions == {regions[id].owner_group : id \in DOMAIN regions}

\* C21: after any sequence of create_region and delete_region calls, failing
\* ones included, a region is persisted iff its owner group exists in the
\* identity provider: every persisted region's owner group exists, and every
\* existing owner group created by create_region belongs to a persisted
\* region.
C21_RegionPersistedIffOwnerGroupExists ==
    /\ OwnerGroupsOfRegions \subseteq DOMAIN kc_groups
    /\ OwnerGroupsInKeycloak \subseteq OwnerGroupsOfRegions

(***************************************************************************)
(* Visibility: alice and bob create regions, open to all, restricted to an *)
(* existing group, or restricted to nobody but the owners; root deletes    *)
(* regions; every user lists the regions and fetches each of them.  No     *)
(* call fails in this scenario.                                            *)
(***************************************************************************)
\* number of regions created in one behaviour of the scenario
MaxRegions == 2

VisUsersGroups == {Missing, "", "ug", "g1"}

VisCreateBodies ==
    {Body(n, Missing, g, All(Str(CustomPath))) : n \in RegionNames, g \in VisUsersGroups}

VisCreate ==
    /\ kc_next <= MaxRegions
    /\ \E body \in VisCreateBodies, user \in {"alice", "bob"} :
          Apply("create_region", NoRegion, user, body, create_region(body, user, NoFailure))

VisDelete ==
    \E id \in 1..MaxRegions :
        Apply("delete_region", id, "root", NoBody, delete_region(id, NoBody, "root", NoFailure))

VisList ==
    \E user \in Users :
        Apply("list_regions", NoRegion, user, NoBody, list_regions(NoBody, user, NoFailure))

VisGet ==
    \E id \in 1..MaxRegions, user \in Users :
        Apply("get_region", id, user, NoBody, get_region(id, NoBody, user, NoFailure))

NextVisibility == VisCreate \/ VisDelete \/ VisList \/ VisGet

SpecVisibility == Init /\ [][NextVisibility]_vars

\* the user has the admin role, or the region's users_group is null, or the
\* user belongs to the region's users_group or owner_group
MaySee(user, row) ==
    \/ user \in Admins
    \/ row.users_group = None
    \/ \E g \in {row.users_group, row.owner_group} :
          g \in DOMAIN kc_groups /\ user \in kc_groups[g]
\* what list_regions and get_region answer the user now
Lists(user, id) == id \in list_regions(NoBody, user, NoFailure).listed
Fetches(user, id) == get_region(id, NoBody, user, NoFailure).outcome.kind = "return"

\* C22: for every user and every persisted region, the region appears in
\* list_regions(user) iff get_region(region, user) returns it, that is iff the
\* user has the admin role, or the region's users_group is null, or the user
\* belongs to the region's users_group or owner_group; and the list and the
\* fetch the handlers last answered are these.
C22_ListAndGetAgree ==
    /\ \A user \in Users, id \in DOMAIN regions :
          /\ Lists(user, id) <=> Fetches(user, id)
          /\ Fetches(user, id) <=> MaySee(user, regions[id])
    /\ call.op = "list_regions" =>
          listed = {id \in DOMAIN regions : MaySee(call.user, regions[id])}
    /\ (call.op = "get_region" /\ call.region_id \in DOMAIN regions) =>
          (outcome.kind = "return" <=> MaySee(call.user, regions[call.region_id]))

(***************************************************************************)
(* Cluster.name: a name is a sequence of characters                        *)
(***************************************************************************)
UPPERCASE == <<"A", "B", "C", "D", "E", "F", "G", "H", "I", "J", "K", "L", "M",
               "N", "O", "P", "Q", "R", "S", "T", "U", "V", "W", "X", "Y", "Z">>
LOWERCASE == <<"a", "b", "c", "d", "e", "f", "g", "h", "i", "j", "k", "l", "m",
               "n", "o", "p", "q", "r", "s", "t", "u", "v", "w", "x", "y", "z">>
DIGITS == {"0", "1", "2", "3", "4", "5", "6", "7", "8", "9"}
Range(seq) == {seq[i] : i \in DOMAIN seq}

\* str.lower()
lower_char(c) ==
    IF c \in Range(UPPERCASE)
    THEN LOWERCASE[CHOOSE i \in DOMAIN UPPERCASE : UPPERCASE[i] = c]
    ELSE c
lower(value) == [i \in DOMAIN value |-> lower_char(value[i])]

\* model.py 342-350
RESERVED_NAMES ==
    {<<"l", "o", "c", "a", "l", "h", "o", "s", "t">>,
     <<"a", "l", "l">>,
     <<"u", "n", "g", "r", "o", "u", "p", "e", "d">>,
     <<"l", "a", "b">>,
     <<"c", "l", "u", "s", "t", "e", "r">>,
     <<"r", "e", "g", "i", "o", "n">>,
     <<"t", "o", "w", "e", "r">>}

\* the character class [0-9a-z]
in_class(c) == c \in DIGITS \cup Range(LOWERCASE)

\* re.match(r'^[0-9a-z]+$', value): one or more characters of the class up to
\* the end of the string, where $ also matches just before a final newline
re_match(value) ==
    LET n == Len(value)
        body == IF n > 0 /\ value[n] = "\n" THEN n - 1 ELSE n
    IN  body >= 1 /\ \A i \in 1..body : in_class(value[i])

\* model.py 352-365: Cluster.validate_name; the ValueError raised, or "" when
\* the value is returned
validate_name(value) ==
    IF lower(value) \in RESERVED_NAMES THEN "is reserved name"
    ELSE IF Len(value) < 6 THEN "Cluster name is too short"
    ELSE IF Len(value) > 20 THEN "Cluster name is too long"
    ELSE IF ~re_match(value) THEN "Cluster name contains invalid characters"
    ELSE ""

\* model.py 352: @validates('name') runs on every assignment to Cluster.name;
\* the attribute is set only when validate_name returns
set_name(value) ==
    LET error == validate_name(value) IN
    /\ name_value' = value
    /\ name_result' = IF error = "" THEN "assigned" ELSE error
    /\ cluster_name' = IF error = "" THEN value ELSE cluster_name
    /\ UNCHANGED <<region_vars, product_vars, usage_vars, row_vars, provision_vars, launch_vars>>

\* longest run of arbitrary characters tried at the end of a name
MaxTail == 2

NameAlphabet == {"a", "9", "-", "\n"}
Tails == UNION {[1..n -> NameAlphabet] : n \in 0..MaxTail}
Pad(n) == [i \in 1..n |-> "x"]
upper_char(c) ==
    IF c \in Range(LOWERCASE)
    THEN UPPERCASE[CHOOSE i \in DOMAIN LOWERCASE : LOWERCASE[i] = c]
    ELSE c
\* names around the length limits, with and without characters outside
\* [0-9a-z], and the reserved words in lower, upper and capitalised form
Names ==
    {Pad(n) \o t : n \in {0, 4, 19}, t \in Tails}
    \cup RESERVED_NAMES
    \cup {[i \in DOMAIN r |-> upper_char(r[i])] : r \in RESERVED_NAMES}
    \cup {[i \in DOMAIN r |-> IF i = 1 THEN upper_char(r[i]) ELSE r[i]] : r \in RESERVED_NAMES}
    \cup {r \o t : r \in RESERVED_NAMES, t \in {<<"1">>, <<"\n">>}}
    \cup {[i \in DOMAIN r |-> upper_char(r[i])] \o <<"1">> : r \in RESERVED_NAMES}

\* a Cluster is created with a name
CreateCluster ==
    /\ cluster_name = <<>>
    /\ \E value \in Names : set_name(value)

\* an existing Cluster is renamed
RenameCluster ==
    /\ cluster_name # <<>>
    /\ \E value \in Names : set_name(value)

NextCluster == CreateCluster \/ RenameCluster

SpecCluster == Init /\ [][NextCluster]_vars

\* what the name rule allows: 6 to 20 characters, each a digit or a lowercase
\* letter a-z, and not a reserved word when lowercased
WellFormedName(value) ==
    /\ Len(value) >= 6 /\ Len(value) <= 20
    /\ \A i \in DOMAIN value : value[i] \in DIGITS \cup Range(LOWERCASE)
    /\ lower(value) \notin RESERVED_NAMES

\* C9: a value assigned as a Cluster name is accepted iff it has 6 to 20
\* characters, every character is a digit or a lowercase letter a-z, and its
\* lowercased form is not reserved; otherwise ValueError is raised and the
\* name is not assigned.
C9_NameAcceptedIffWellFormed ==
    name_result # "none" =>
        /\ name_result = "assigned" <=> WellFormedName(name_value)
        /\ name_result = "assigned" => cluster_name = name_value

(***************************************************************************)
(* Product.validate_cluster_params                                         *)
(***************************************************************************)
\* a JSON value: a string, an integer or a boolean, told apart by t
StrValue(n) == [t |-> "str", n |-> n]
IntValue(n) == [t |-> "int", n |-> n]
BoolValue(n) == [t |-> "bool", n |-> n]
ValuesOf(t) == {[t |-> t, n |-> n] : n \in {0, 1}}
Values == ValuesOf("str") \cup ValuesOf("int") \cup ValuesOf("bool")

\* Python ==: True == 1 and False == 0, a string equals only the same string
PyEq(a, b) ==
    IF a.t \in {"int", "bool"} /\ b.t \in {"int", "bool"} THEN a.n = b.n ELSE a = b
\* x in e
PyIn(x, e) == \E y \in e : PyEq(y, x)

\* model.py 581-583
parameters_variables(params) == {params[i].variable : i \in DOMAIN params}

\* isinstance(x, int): a bool is an int as well
isinstance_int(x) == x.t \in {"int", "bool"}
\* model.py 612: type(x) is int
type_is_int(x) == x.t = "int"
\* model.py 609, 615: isinstance(x, str), isinstance(x, bool)
isinstance_of(x, t) == x.t = t

NoParams == [v \in {} |-> ""]
Invalid(invalid_params, var, reason) ==
    [v \in DOMAIN invalid_params \cup {var} |->
        IF v = var THEN reason ELSE invalid_params[v]]

\* model.py 596-598
extra_params(params, cp) ==
    [v \in DOMAIN cp \ parameters_variables(params) |-> "not allowed"]

\* the loop body, stopping at the first parameter found invalid
check_param_first_only(invalid_params, param_spec, cp) ==
    LET var == param_spec.variable
        t == param_spec.type
    IN  IF invalid_params # NoParams THEN invalid_params
        ELSE IF var \notin DOMAIN cp
        THEN IF param_spec.required
             THEN Invalid(invalid_params, var, "is required")
             ELSE invalid_params
        ELSE IF t = "string" /\ ~isinstance_of(cp[var], "str")
        THEN Invalid(invalid_params, var, "must be a string")
        ELSE IF t = "integer" /\ ~type_is_int(cp[var])
        THEN Invalid(invalid_params, var, "must be an integer")
        ELSE IF t = "boolean" /\ ~isinstance_of(cp[var], "bool")
        THEN Invalid(invalid_params, var, "must be a boolean")
        ELSE IF param_spec.enum.present /\ ~PyIn(cp[var], param_spec.enum.values)
        THEN Invalid(invalid_params, var, "value not allowed")
        ELSE invalid_params

\* model.py 600-622: the body of the loop over self.parameters
check_param(invalid_params, param_spec, cp) ==
    LET var == param_spec.variable
        t == param_spec.type
    IN  IF var \notin DOMAIN cp
        THEN IF param_spec.required
             THEN Invalid(invalid_params, var, "is required")
             ELSE invalid_params
        ELSE IF t = "string" /\ ~isinstance_of(cp[var], "str")
        THEN Invalid(invalid_params, var, "must be a string")
        ELSE IF t = "integer" /\ ~type_is_int(cp[var])
        THEN Invalid(invalid_params, var, "must be an integer")
        ELSE IF t = "boolean" /\ ~isinstance_of(cp[var], "bool")
        THEN Invalid(invalid_params, var, "must be a boolean")
        ELSE IF param_spec.enum.present /\ ~PyIn(cp[var], param_spec.enum.values)
        THEN Invalid(invalid_params, var, "value not allowed")
        ELSE invalid_params

RECURSIVE check_params(_, _, _)
check_params(invalid_params, params, cp) ==
    IF params = <<>> THEN invalid_params
    ELSE check_params(check_param(invalid_params, Head(params), cp), Tail(params), cp)

\* model.py 593-625
validate_cluster_params(params, cp) ==
    LET invalid_params == check_params(extra_params(params, cp), params, cp)
    IN  IF invalid_params # NoParams
        THEN [raised |-> "ValueError", invalid |-> invalid_params]
        ELSE [raised |-> "", invalid |-> NoParams]

\* longest enum list of a parameter declaration
MaxEnum == 1

Undeclared == "extra"
Types == <<"string", "integer", "boolean">>
PyType(t) == CASE t = "string" -> "str" [] t = "integer" -> "int" [] t = "boolean" -> "bool"
NoEnum == [present |-> FALSE, values |-> {}]
Enums(t) ==
    {NoEnum} \cup {[present |-> TRUE, values |-> e] :
                     e \in {e \in SUBSET ValuesOf(PyType(t)) : Cardinality(e) <= MaxEnum}}
ParamSpecs(var) ==
    {[variable |-> var, type |-> Types[i], required |-> r, enum |-> e] :
        i \in DOMAIN Types, r \in BOOLEAN, e \in UNION {Enums(Types[j]) : j \in DOMAIN Types}}
WellTyped(param_spec) == param_spec.enum \in Enums(param_spec.type)
\* a schema declares x, y, both or neither, each once
Schemas ==
    {<<>>}
    \cup {<<p>> : p \in {p \in ParamSpecs("x") \cup ParamSpecs("y") : WellTyped(p)}}
    \cup {<<p, q>> : p \in {p \in ParamSpecs("x") : WellTyped(p)},
                     q \in {q \in ParamSpecs("y") : WellTyped(q)}}
\* an input gives any of x, y and a parameter no schema declares
Inputs ==
    UNION {{cp \in [D -> Values] : Undeclared \in D => cp[Undeclared] = StrValue(0)} :
              D \in SUBSET {"x", "y", Undeclared}}

InitParams ==
    /\ NoRegions /\ NoCluster /\ NoUsage /\ NoClusterRow /\ NoProvision /\ NoLaunch
    /\ parameters \in Schemas
    /\ cluster_params \in Inputs
    /\ params_result = NotValidated

Validate ==
    /\ params_result = NotValidated
    /\ params_result' = validate_cluster_params(parameters, cluster_params)
    /\ UNCHANGED <<region_vars, cluster_vars, usage_vars, row_vars, provision_vars, launch_vars, parameters, cluster_params>>

NextParams == Validate

SpecParams == InitParams /\ [][NextParams]_vars

\* the rule a variable violates, "" when none
Violation(var) ==
    LET declared == \E i \in DOMAIN parameters : parameters[i].variable = var
        decl == parameters[CHOOSE i \in DOMAIN parameters : parameters[i].variable = var]
        present == var \in DOMAIN cluster_params
        value == cluster_params[var]
    IN  IF ~declared THEN (IF present THEN "not allowed" ELSE "")
        ELSE IF ~present THEN (IF decl.required THEN "is required" ELSE "")
        ELSE IF value.t # PyType(decl.type)
        THEN CASE decl.type = "string" -> "must be a string"
               [] decl.type = "integer" -> "must be an integer"
               [] decl.type = "boolean" -> "must be a boolean"
        ELSE IF decl.enum.present /\ value \notin decl.enum.values THEN "value not allowed"
        ELSE ""
Violated == {var \in {"x", "y", Undeclared} : Violation(var) # ""}

\* C10: validate_cluster_params raises iff some variable violates a rule, and
\* the mapping it raises has exactly the violated variables, each with the
\* reason of the rule it violates: 'not allowed', 'is required', 'must be a
\* <type>' or 'value not allowed'.
C10_RaisesExactlyTheViolations ==
    params_result # NotValidated =>
        /\ params_result.raised = "ValueError" <=> Violated # {}
        /\ DOMAIN params_result.invalid = Violated
        /\ \A var \in Violated : params_result.invalid[var] = Violation(var)

\* C10 witness: three variables violate three different rules and all three
\* are reported together
C10_Witness ==
    /\ params_result.raised = "ValueError"
    /\ DOMAIN params_result.invalid = {"x", "y", Undeclared}
    /\ params_result.invalid[Undeclared] = "not allowed"
    /\ params_result.invalid["x"] = "is required"
    /\ params_result.invalid["y"] = "value not allowed"

\* the declaration of a declared variable
DeclOf(var) == parameters[CHOOSE i \in DOMAIN parameters : parameters[i].variable = var]
DeclaredVars == parameters_variables(parameters)

\* C11: types are matched exactly: a boolean given for an 'integer' parameter
\* is rejected with 'must be an integer', an integer given for a 'boolean'
\* parameter with 'must be a boolean', and any non-string given for a
\* 'string' parameter with 'must be a string'.
C11_TypesMatchExactly ==
    params_result # NotValidated =>
        \A var \in DeclaredVars \cap DOMAIN cluster_params :
            LET given == cluster_params[var].t
                reason == CASE DeclOf(var).type = "integer" /\ given = "bool" -> "must be an integer"
                            [] DeclOf(var).type = "boolean" /\ given = "int" -> "must be a boolean"
                            [] DeclOf(var).type = "string" /\ given # "str" -> "must be a string"
                            [] OTHER -> ""
            IN  reason # "" =>
                    /\ params_result.raised = "ValueError"
                    /\ var \in DOMAIN params_result.invalid
                    /\ params_result.invalid[var] = reason

\* C11 witness: True given for an integer whose enum would admit 1, and 1
\* given for a boolean, are both rejected for their type
C11_Witness ==
    /\ params_result.raised = "ValueError"
    /\ {"x", "y"} \subseteq DeclaredVars
    /\ DeclOf("x").type = "integer" /\ DeclOf("x").enum = [present |-> TRUE, values |-> {IntValue(1)}]
    /\ DeclOf("y").type = "boolean"
    /\ cluster_params = [x |-> BoolValue(1), y |-> IntValue(1)]
    /\ params_result.invalid = [x |-> "must be an integer", y |-> "must be a boolean"]

(***************************************************************************)
(* Quota usage: Region.get_user_quota_usage, Region.get_total_quota_usage, *)
(* Cluster.quota_usage                                                     *)
(***************************************************************************)
\* model.py 555-558
USAGE_FIELDS == <<"num_vcpus", "ram_mb", "num_volumes", "volumes_gb">>
UsageKeys == {USAGE_FIELDS[i] : i \in DOMAIN USAGE_FIELDS}

\* db.func.sum over the rows `rows` of lab_cluster_host: NULLs are skipped,
\* and the sum of no value at all is NULL
RECURSIVE sum_values(_, _, _)
sum_values(hosts, rows, k) ==
    IF rows = {} THEN 0
    ELSE LET i == CHOOSE i \in rows : TRUE
         IN  (IF hosts[i][k] = Null THEN 0 ELSE hosts[i][k][1])
             + sum_values(hosts, rows \ {i}, k)
sql_sum(hosts, rows, k) ==
    IF \A i \in rows : hosts[i][k] = Null THEN Null ELSE Num(sum_values(hosts, rows, k))

coalesce_not(x, default) == x
\* db.func.coalesce(x, 0)
coalesce(x, default) == IF x = Null THEN Num(default) ELSE x

where_any_region(cluster, region_id) == TRUE
\* model.py 238: Cluster.region_id == self.id
where_region(cluster, region_id) == cluster.region_id = region_id
\* model.py 216-219
where_region_user(cluster, region_id, user_id) ==
    where_region(cluster, region_id) /\ cluster.user_id = user_id

\* model.py 204-224
get_user_quota_usage(clusters, hosts, region_id, user_id) ==
    LET rows == {i \in DOMAIN hosts :
                    where_region_user(clusters[hosts[i].cluster_id], region_id, user_id)}
    IN  [k \in UsageKeys |-> coalesce(sql_sum(hosts, rows, k), 0)]

\* model.py 226-243
get_total_quota_usage(clusters, hosts, region_id) ==
    LET rows == {i \in DOMAIN hosts : where_region(clusters[hosts[i].cluster_id], region_id)}
    IN  [k \in UsageKeys |-> coalesce(sql_sum(hosts, rows, k), 0)]

\* model.py 385-389: usage[k] += getattr(host, k) over self.hosts; adding None
\* to an int raises TypeError
RECURSIVE add_hosts(_, _, _)
add_hosts(acc, hosts, rows) ==
    IF rows = <<>> \/ acc.error # "" THEN acc
    ELSE LET host == hosts[Head(rows)]
         IN  add_hosts(IF \E k \in UsageKeys : host[k] = Null
                       THEN [acc EXCEPT !.error = "TypeError"]
                       ELSE [acc EXCEPT !.usage = [k \in UsageKeys |-> Num(@[k][1] + host[k][1])]],
                       hosts, Tail(rows))
\* Cluster.hosts: the cluster's own rows, by id
hosts_of(hosts, cluster_id) ==
    SelectSeq([i \in DOMAIN hosts |-> i], LAMBDA i : hosts[i].cluster_id = cluster_id)
\* model.py 378-389
quota_usage(hosts, cluster_id) ==
    add_hosts([error |-> "", usage |-> [k \in UsageKeys |-> Num(0)]],
              hosts, hosts_of(hosts, cluster_id))

\* number of lab_cluster_host rows
MaxHosts == 3

UsageRegionIds == {1, 2}
UsageUsers == {"alice", "bob", "carol"}
UsageClusterIds == 1..3
\* a host with every column set, and one with some left unset
HostSizes ==
    {[num_vcpus |-> Num(2), ram_mb |-> Num(4), num_volumes |-> Num(1), volumes_gb |-> Num(8)],
     [num_vcpus |-> Num(1), ram_mb |-> Null, num_volumes |-> Num(0), volumes_gb |-> Null]}
HostRow(cluster_id, size) ==
    [cluster_id |-> cluster_id, num_vcpus |-> size.num_vcpus, ram_mb |-> size.ram_mb,
     num_volumes |-> size.num_volumes, volumes_gb |-> size.volumes_gb]
ClusterPopulations ==
    UNION {[1..n -> [region_id : UsageRegionIds, user_id : {"alice", "bob"}]] :
              n \in {0} \cup UsageClusterIds}
HostPopulations(clusters) ==
    UNION {[1..n -> {HostRow(c, size) : c \in DOMAIN clusters, size \in HostSizes}] :
              n \in 0..MaxHosts}

InitUsage ==
    /\ NoRegions /\ NoCluster /\ NoProduct /\ NoClusterRow /\ NoProvision /\ NoLaunch
    /\ lab_cluster \in ClusterPopulations
    /\ lab_cluster_host \in HostPopulations(lab_cluster)
    /\ usage = NotComputed

\* the usage of one region is computed in every way the model offers
ComputeUsage ==
    /\ \E region_id \in UsageRegionIds :
          usage' = [region_id |-> region_id,
                    total |-> get_total_quota_usage(lab_cluster, lab_cluster_host, region_id),
                    user |-> [u \in UsageUsers |->
                                get_user_quota_usage(lab_cluster, lab_cluster_host, region_id, u)],
                    cluster |-> [c \in DOMAIN lab_cluster |-> quota_usage(lab_cluster_host, c)]]
    /\ UNCHANGED <<region_vars, cluster_vars, product_vars, row_vars, provision_vars, launch_vars, lab_cluster, lab_cluster_host>>

NextUsage == ComputeUsage

SpecUsage == InitUsage /\ [][NextUsage]_vars

HostsIn(region_id) ==
    {i \in DOMAIN lab_cluster_host :
        lab_cluster[lab_cluster_host[i].cluster_id].region_id = region_id}
HostsOfUser(region_id, user_id) ==
    {i \in HostsIn(region_id) : lab_cluster[lab_cluster_host[i].cluster_id].user_id = user_id}
ZeroUsage == [k \in UsageKeys |-> Num(0)]

\* C12: for a region none of whose clusters has a host, total usage and every
\* user's usage are 0 in each of the four fields; and no field of a total or
\* per-user usage is ever null, whatever hosts exist.
C12_UsageZeroAndNeverNull ==
    usage # NotComputed =>
        /\ HostsIn(usage.region_id) = {} =>
              /\ usage.total = ZeroUsage
              /\ \A u \in UsageUsers : usage.user[u] = ZeroUsage
        /\ \A k \in UsageKeys :
              /\ usage.total[k] # Null
              /\ \A u \in UsageUsers : usage.user[u][k] # Null

\* C12 witness: usage was computed for a region with clusters but no hosts,
\* while the other region has hosts whose columns are all unset
C12_Witness ==
    /\ usage # NotComputed
    /\ \E c \in DOMAIN lab_cluster : lab_cluster[c].region_id = usage.region_id
    /\ HostsIn(usage.region_id) = {}
    /\ lab_cluster_host # <<>>
    /\ \A i \in DOMAIN lab_cluster_host : lab_cluster_host[i].ram_mb = Null
    /\ usage.total = ZeroUsage

\* the sum of column k over the host rows S, an unset column counting as 0
RECURSIVE FieldSum(_, _)
FieldSum(S, k) ==
    IF S = {} THEN 0
    ELSE LET i == CHOOSE i \in S : TRUE
             v == lab_cluster_host[i][k]
         IN  (IF v = Null THEN 0 ELSE v[1]) + FieldSum(S \ {i}, k)
\* the users owning clusters in a region
Owners(region_id) ==
    {lab_cluster[c].user_id : c \in {c \in DOMAIN lab_cluster : lab_cluster[c].region_id = region_id}}
RECURSIVE SumOfUsers(_, _)
SumOfUsers(U, k) ==
    IF U = {} THEN 0
    ELSE LET u == CHOOSE u \in U : TRUE
         IN  usage.user[u][k][1] + SumOfUsers(U \ {u}, k)

\* C13: the total usage of a region sums exactly the hosts of the clusters in
\* that region, a user's usage sums exactly the hosts of the region's
\* clusters owned by that user, and in each field the total equals the sum
\* of the usages of the users owning clusters in the region.
C13_UsageFilteredAndAdditive ==
    usage # NotComputed =>
        \A k \in UsageKeys :
            /\ usage.total[k] = Num(FieldSum(HostsIn(usage.region_id), k))
            /\ \A u \in UsageUsers :
                  usage.user[u][k] = Num(FieldSum(HostsOfUser(usage.region_id, u), k))
            /\ usage.total[k] = Num(SumOfUsers(Owners(usage.region_id), k))

\* C13 witness: two users own a host each in the region, a third host is in
\* the other region, and the total is the sum of the two users' usages
C13_Witness ==
    /\ usage # NotComputed
    /\ Owners(usage.region_id) = {"alice", "bob"}
    /\ HostsOfUser(usage.region_id, "alice") # {}
    /\ HostsOfUser(usage.region_id, "bob") # {}
    /\ \E i \in DOMAIN lab_cluster_host : i \notin HostsIn(usage.region_id)
    /\ usage.total.num_vcpus = Num(usage.user["alice"].num_vcpus[1] + usage.user["bob"].num_vcpus[1])
    /\ usage.total.num_vcpus[1] < FieldSum(DOMAIN lab_cluster_host, "num_vcpus")

RECURSIVE SumOfClusters(_, _)
SumOfClusters(C, k) ==
    IF C = {} THEN 0
    ELSE LET c == CHOOSE c \in C : TRUE
         IN  usage.cluster[c].usage[k][1] + SumOfClusters(C \ {c}, k)

\* C20: Cluster.quota_usage returns a number for each of the four fields for
\* every cluster, also when columns of its hosts are unset, 0 for a cluster
\* without hosts, and the total usage of a region equals the field-wise sum
\* of quota_usage over the region's clusters.
C20_ClusterUsageAgreesWithRegionUsage ==
    usage # NotComputed =>
        /\ \A c \in DOMAIN lab_cluster :
              /\ usage.cluster[c].error = ""
              /\ hosts_of(lab_cluster_host, c) = <<>> => usage.cluster[c].usage = ZeroUsage
        /\ \A k \in UsageKeys :
              usage.total[k] =
                  Num(SumOfClusters({c \in DOMAIN lab_cluster :
                                        lab_cluster[c].region_id = usage.region_id}, k))

(***************************************************************************)
(* One Cluster row: status, reservation_expiration, lifespan_expiration    *)
(***************************************************************************)
\* model.py 275-305
ClusterStatus ==
    {"ACTIVE", "PRE_PROVISIONING_QUEUED", "PRE_PROVISIONING", "PRE_PROVISIONING_FAILED",
     "PROVISIONING_QUEUED", "PROVISIONING", "PROVISIONING_FAILED",
     "POST_PROVISIONING_QUEUED", "POST_PROVISIONING", "POST_PROVISIONING_FAILED",
     "PRE_INSTALLATION_QUEUED", "PRE_INSTALLING", "PRE_INSTALLATION_FAILED",
     "INSTALLATION_QUEUED", "INSTALLING", "INSTALLATION_FAILED",
     "POST_INSTALLATION_QUEUED", "POST_INSTALLING", "POST_INSTALLATION_FAILED",
     "PRE_DELETION_QUEUED", "PRE_DELETING", "PRE_DELETION_FAILED",
     "DELETION_QUEUED", "DELETING", "DELETION_FAILED",
     "POST_DELETION_QUEUED", "POST_DELETING", "POST_DELETION_FAILED",
     "DELETED", "QUEUED"}

CLUSTER_COLUMNS == <<"status", "reservation_expiration", "lifespan_expiration">>

\* model.py 328: status has default=None; 323, 326: the expirations are
\* nullable and have no default
column_default(k) == IF k = "status" THEN None ELSE Null

\* an assignment that refuses to leave DELETED
setattr_unless_deleted(row, k, v) ==
    IF k = "status" /\ row.status = "DELETED" THEN row ELSE [row EXCEPT ![k] = v]

\* utils.py 24: setattr(self, k, v); none of the three columns has a validator
setattr(row, k, v) == [row EXCEPT ![k] = v]

\* utils.py 21-24: ModelMixin.update_from_dict
RECURSIVE set_items(_, _, _)
set_items(row, data, keys) ==
    IF keys = <<>> THEN row
    ELSE set_items(IF Head(keys) \in DOMAIN data
                   THEN setattr(row, Head(keys), data[Head(keys)])
                   ELSE row,
                   data, Tail(keys))
ModelMixin_update_from_dict(row, data) == set_items(row, data, CLUSTER_COLUMNS)

\* utils.py 16-19: ModelMixin.from_dict, cls(**data); a column not given gets
\* its default when the row is inserted
ModelMixin_from_dict(data) ==
    [created |-> TRUE,
     status |-> IF "status" \in DOMAIN data THEN data.status ELSE column_default("status"),
     reservation_expiration |->
        IF "reservation_expiration" \in DOMAIN data THEN data.reservation_expiration
        ELSE column_default("reservation_expiration"),
     lifespan_expiration |->
        IF "lifespan_expiration" \in DOMAIN data THEN data.lifespan_expiration
        ELSE column_default("lifespan_expiration")]

\* points in time, and the data of a create or update
Times == {Num(1), Num(2)}
NoData == [k \in {} |-> None]
StatusData(S) == {[k \in {"status"} |-> st] : st \in S}
ExpirationData ==
    UNION {[K -> Times \cup {Null}] :
              K \in SUBSET {"reservation_expiration", "lifespan_expiration"} \ {{}}}
Merge(f, g) == [k \in DOMAIN f \cup DOMAIN g |-> IF k \in DOMAIN f THEN f[k] ELSE g[k]]
CreateData ==
    {Merge(st, e) : st \in {NoData} \cup StatusData({"QUEUED", "ACTIVE"}),
                    e \in {NoData} \cup ExpirationData}
UpdateData == StatusData(ClusterStatus) \cup ExpirationData

CreateClusterRow ==
    /\ ~cluster_row.created
    /\ \E data \in CreateData :
          /\ cluster_row' = ModelMixin_from_dict(data)
          /\ cluster_call' = [op |-> "create", data |-> data, before |-> cluster_row]
    /\ UNCHANGED <<region_vars, cluster_vars, product_vars, usage_vars, provision_vars, launch_vars>>

UpdateClusterRow ==
    /\ cluster_row.created
    /\ \E data \in UpdateData :
          /\ cluster_row' = ModelMixin_update_from_dict(cluster_row, data)
          /\ cluster_call' = [op |-> "update", data |-> data, before |-> cluster_row]
    /\ UNCHANGED <<region_vars, cluster_vars, product_vars, usage_vars, provision_vars, launch_vars>>

NextClusterRow == CreateClusterRow \/ UpdateClusterRow

SpecClusterRow == Init /\ [][NextClusterRow]_vars

\* C14: once lifespan_expiration is set, after any update of the cluster
\* reservation_expiration is never later than lifespan_expiration.
C14_ReservationWithinLifespan ==
    (/\ cluster_call.op = "update"
     /\ cluster_row.lifespan_expiration # Null
     /\ cluster_row.reservation_expiration # Null)
        => cluster_row.reservation_expiration[1] <= cluster_row.lifespan_expiration[1]

\* C17: from every status, assigning any value of ClusterStatus succeeds and
\* becomes the cluster's status.
C17_AnyStatusAssignmentAccepted ==
    (cluster_call.op = "update" /\ "status" \in DOMAIN cluster_call.data)
        => /\ cluster_call.data.status \in ClusterStatus
           /\ cluster_row.status = cluster_call.data.status

\* C17 witness: a DELETED cluster was set to ACTIVE
C17_Witness ==
    /\ cluster_call.op = "update"
    /\ cluster_call.before.status = "DELETED"
    /\ cluster_call.data = [k \in {"status"} |-> "ACTIVE"]
    /\ cluster_row.status = "ACTIVE"

(***************************************************************************)
(* Bare metal provisions: status at creation, ironic_operations            *)
(***************************************************************************)
\* provision.py 29-32
BareMetalProvisionType == {"generic", "iso", "qcow2"}
\* provision.py 35-45
BareMetalProvisionStatus ==
    {"ACTIVE", "FAILED_PROVISIONING_DEPLOY_HOST", "FAILED_PROVISIONING_SYNC_IMAGE",
     "FAILED_RETURNING_HOST", "FINISHED", "PROVISIONING_DEPLOY_HOST", "PROVISIONING_ENDING",
     "PROVISIONING_SYNC_IMAGE", "QUEUED", "RETURNING_HOST"}
\* provision.py 63: server_default=BareMetalProvisionStatus.QUEUED.name
status_server_default == "QUEUED"

\* rhub.bare_metal.model.common, a directory path
BARE_METAL_KICKSTART_BASE_PATH == "/kickstarts"

\* the image rows a provision can reference: the file paths and URL of each
ImageField(image, field) == "/images/" \o image \o "/" \o field
Images == {"rhel8", "rhel9"}

kickstart_file_shared(row) == BARE_METAL_KICKSTART_BASE_PATH \o "/" \o "kickstart.cfg"

\* provision.py 115-117
kickstart_file(row) ==
    BARE_METAL_KICKSTART_BASE_PATH \o "/" \o "kickstart_" \o ToString(row.id) \o ".cfg"

PatchOp(op, path, value) == [op |-> op, path |-> path, value |-> value]

\* provision.py 129-165
iso_ironic_operations(row) ==
    <<PatchOp("replace", "/deploy_interface", "anaconda"),
      PatchOp("add", "/instance_info/image_source", ImageField(row.image, "source_url")),
      PatchOp("add", "/instance_info/kernel", "file://" \o ImageField(row.image, "kernel_file_path")),
      PatchOp("add", "/instance_info/ks_template", "file://" \o kickstart_file(row)),
      PatchOp("add", "/instance_info/ramdisk", "file://" \o ImageField(row.image, "initramfs_file_path")),
      PatchOp("add", "/instance_info/stage2", "file://" \o ImageField(row.image, "stage2_file_path")),
      PatchOp("add", "/instance_info/disk_file_extension", ".img"),
      PatchOp("add", "/instance_info/root_gb", 50)>>

\* provision.py 187-208
qcow2_ironic_operations(row) ==
    <<PatchOp("replace", "/deploy_interface", "direct"),
      PatchOp("add", "/instance_info/image_source", "file://" \o ImageField(row.image, "image_file_path")),
      PatchOp("add", "/instance_info/kernel", "file://" \o ImageField(row.image, "kernel_file_path")),
      PatchOp("add", "/instance_info/ramdisk", "file://" \o ImageField(row.image, "initramfs_file_path")),
      PatchOp("add", "/instance_info/root_gb", 50)>>

\* the property of the class the type column selects (provision.py 76-79,
\* 103-105, 183-185); the base class raises NotImplementedError (81-84)
ironic_operations(row) ==
    CASE row.type = "iso" -> [raised |-> "", result |-> iso_ironic_operations(row)]
      [] row.type = "qcow2" -> [raised |-> "", result |-> qcow2_ironic_operations(row)]
      [] OTHER -> [raised |-> "NotImplementedError", result |-> <<>>]

\* provision.py 119-127: what write_kickstart_content reports
write_kickstart_content(row, kickstart_local_file) ==
    [kickstart_file |-> kickstart_file(row), kickstart_local_file |-> kickstart_local_file]

ProvisionIds == 1..3
ProvisionData == {NoData} \cup StatusData(BareMetalProvisionStatus)

\* a provision of one of the three classes is inserted
CreateProvision ==
    /\ ~provision.created
    /\ \E id \in ProvisionIds, type \in BareMetalProvisionType, image \in Images,
          data \in ProvisionData :
          /\ provision' = [created |-> TRUE, id |-> id, type |-> type, image |-> image,
                           status |-> IF "status" \in DOMAIN data THEN data.status
                                      ELSE status_server_default]
          /\ provision_call' = [op |-> "create", data |-> data, raised |-> "", result |-> <<>>]
    /\ UNCHANGED <<region_vars, cluster_vars, product_vars, usage_vars, row_vars, launch_vars>>

GetIronicOperations ==
    /\ provision.created
    /\ provision_call' = [op |-> "ironic_operations", data |-> NoData,
                          raised |-> ironic_operations(provision).raised,
                          result |-> ironic_operations(provision).result]
    /\ UNCHANGED <<region_vars, cluster_vars, product_vars, usage_vars, row_vars, launch_vars, provision>>

WriteKickstartContent ==
    /\ provision.created /\ provision.type = "iso"
    /\ provision_call' = [op |-> "write_kickstart_content", data |-> NoData, raised |-> "",
                          result |-> write_kickstart_content(provision, "/tmp/ks")]
    /\ UNCHANGED <<region_vars, cluster_vars, product_vars, usage_vars, row_vars, launch_vars, provision>>

NextProvision == CreateProvision \/ GetIronicOperations \/ WriteKickstartContent

SpecProvision == Init /\ [][NextProvision]_vars

\* the operations of a result with the given op and path
OpsAt(op, path) ==
    {i \in DOMAIN provision_call.result :
        provision_call.result[i].op = op /\ provision_call.result[i].path = path}
\* the provision's own kickstart path
OwnKickstartPath == "/kickstarts/kickstart_" \o ToString(provision.id) \o ".cfg"

\* C15: the operations of an ISO provision replace /deploy_interface with
\* 'anaconda' and add /instance_info/ks_template with file:// followed by
\* the provision's own kickstart_<id>.cfg path, the path that
\* write_kickstart_content reports; those of a QCOW2 provision replace
\* /deploy_interface with 'direct' and hold no ks_template operation; a
\* generic provision raises NotImplementedError and yields no list.
C15_OperationsPerVariant ==
    /\ provision_call.op = "ironic_operations" =>
        /\ provision.type = "iso" =>
              /\ provision_call.raised = ""
              /\ \E i \in OpsAt("replace", "/deploy_interface") :
                    provision_call.result[i].value = "anaconda"
              /\ \E i \in OpsAt("add", "/instance_info/ks_template") :
                    provision_call.result[i].value = "file://" \o OwnKickstartPath
        /\ provision.type = "qcow2" =>
              /\ provision_call.raised = ""
              /\ \E i \in OpsAt("replace", "/deploy_interface") :
                    provision_call.result[i].value = "direct"
              /\ \A i \in DOMAIN provision_call.result :
                    provision_call.result[i].path # "/instance_info/ks_template"
        /\ provision.type = "generic" =>
              /\ provision_call.raised = "NotImplementedError"
              /\ provision_call.result = <<>>
    /\ provision_call.op = "write_kickstart_content" =>
          provision_call.result.kickstart_file = OwnKickstartPath

\* C15 witness: the operations of ISO provision 2 refer to kickstart_2.cfg
C15_Witness ==
    /\ provision_call.op = "ironic_operations"
    /\ provision.type = "iso" /\ provision.id = 2
    /\ \E i \in OpsAt("add", "/instance_info/ks_template") :
          provision_call.result[i].value = "file:///kickstarts/kickstart_2.cfg"

\* C16: a Cluster created without a status starts in QUEUED, and a
\* BareMetalProvision created without a status starts in QUEUED.
C16_CreatedInQueued ==
    /\ (cluster_call.op = "create" /\ "status" \notin DOMAIN cluster_call.data)
          => cluster_row.status = "QUEUED"
    /\ (provision_call.op = "create" /\ "status" \notin DOMAIN provision_call.data)
          => provision.status = "QUEUED"

(***************************************************************************)
(* Quotas: the owner creates regions with or without quotas and updates    *)
(* them, giving each quota not at all, empty, or with values.              *)
(***************************************************************************)
OtherQuotaData == [num_vcpus |-> 4, ram_mb |-> 32]
QuotaInputs ==
    {QuotaAbsent, QuotaEmpty, QuotaGiven, [present |-> TRUE, data |-> <<OtherQuotaData>>]}
WithQuotas(body, user_quota, total_quota) ==
    [body EXCEPT !.user_quota = user_quota, !.total_quota = total_quota]

QuotaCreateBodies ==
    {WithQuotas(Body(n, Missing, Missing, All(Dict(Secret))), uq, tq) :
        n \in RegionNames, uq \in {QuotaAbsent, QuotaGiven}, tq \in {QuotaAbsent, QuotaGiven}}
QuotaUpdateBodies ==
    {WithQuotas(Body(Missing, d, Missing, All(Absent)), uq, tq) :
        d \in {Missing, "d"}, uq \in QuotaInputs, tq \in QuotaInputs}

QuotaCreate ==
    /\ kc_next <= MaxGroups
    /\ \E body \in QuotaCreateBodies :
          Apply("create_region", NoRegion, "alice", body,
                create_region(body, "alice", NoFailure))

QuotaUpdate ==
    \E id \in RegionIds, body \in QuotaUpdateBodies :
        Apply("update_region", id, "alice", body, update_region(id, body, "alice", NoFailure))

NextQuotas == QuotaCreate \/ QuotaUpdate

SpecQuotas == Init /\ [][NextQuotas]_vars

QuotaKeys == {"user_quota", "total_quota"}

\* C18: Region.update_from_dict treats user_quota and total_quota each on
\* its own: given empty, the quota is removed; given with values while the
\* region has none, a quota with those values is attached; given with values
\* while the region has one, that quota takes the given values; a quota not
\* given, and every region field not named, stays as it was.
C18_QuotasUpdatedIndependently ==
    [][(call'.op = "update_region" /\ call'.region_id \in DOMAIN regions)
       => LET before == regions[call'.region_id]
              after == regions'[call'.region_id]
              data == call'.body
          IN  /\ \A k \in QuotaKeys :
                    /\ ~data[k].present => after[k] = before[k]
                    /\ (data[k].present /\ data[k].data = <<>>) => after[k] = NoQuota
                    /\ (data[k].present /\ data[k].data # <<>>) => after[k] = data[k].data
              /\ data.name = Missing => after.name = before.name
              /\ data.description = Missing => after.description = before.description
              /\ after.owner_group = before.owner_group]_vars

(***************************************************************************)
(* Cluster.tower_launch_extra_vars                                         *)
(***************************************************************************)
\* d1 | d2: the keys of both, the value of d2 where both have the key
dict_union_left(d1, d2) ==
    [k \in DOMAIN d1 \cup DOMAIN d2 |-> IF k \in DOMAIN d1 THEN d1[k] ELSE d2[k]]
dict_union(d1, d2) ==
    [k \in DOMAIN d1 \cup DOMAIN d2 |-> IF k \in DOMAIN d2 THEN d2[k] ELSE d1[k]]

\* model.py 407-416; the names are strings told apart by a number, as the
\* values of product_params are
rhub_extra_vars(cluster) ==
    [rhub_cluster_id |-> IntValue(cluster.id),
     rhub_cluster_name |-> StrValue(cluster.id),
     rhub_product_id |-> IntValue(cluster.product_id),
     rhub_product_name |-> StrValue(cluster.product_id),
     rhub_region_id |-> IntValue(cluster.region_id),
     rhub_region_name |-> StrValue(cluster.region_id),
     rhub_user_id |-> StrValue(cluster.user_id),
     rhub_user_name |-> StrValue(cluster.user_id)]

\* model.py 405-417
tower_launch_extra_vars(cluster) ==
    dict_union(rhub_extra_vars(cluster), cluster.product_params)

\* product_params with keys of the product and keys that collide with the
\* fixed variables
ParamKeys == {"node_count", "rhub_cluster_id", "rhub_user_name"}
ParamValues == {IntValue(0), StrValue(0)}
ProductParams == UNION {[K -> ParamValues] : K \in SUBSET ParamKeys}
LaunchClusters ==
    [id : {1, 2}, product_id : {1, 2}, region_id : {1}, user_id : {1, 2},
     product_params : ProductParams]

InitLaunch ==
    /\ NoRegions /\ NoCluster /\ NoProduct /\ NoUsage /\ NoClusterRow /\ NoProvision
    /\ launch_cluster \in LaunchClusters
    /\ extra_vars = <<>>

ComputeExtraVars ==
    /\ extra_vars = <<>>
    /\ extra_vars' = tower_launch_extra_vars(launch_cluster)
    /\ UNCHANGED <<region_vars, cluster_vars, product_vars, usage_vars, row_vars,
                   provision_vars, launch_cluster>>

NextLaunch == ComputeExtraVars

SpecLaunch == InitLaunch /\ [][NextLaunch]_vars

FixedVariables ==
    {"rhub_cluster_id", "rhub_cluster_name", "rhub_product_id", "rhub_product_name",
     "rhub_region_id", "rhub_region_name", "rhub_user_id", "rhub_user_name"}
\* the cluster's own identity values
Identity ==
    [rhub_cluster_id |-> [t |-> "int", n |-> launch_cluster.id],
     rhub_cluster_name |-> [t |-> "str", n |-> launch_cluster.id],
     rhub_product_id |-> [t |-> "int", n |-> launch_cluster.product_id],
     rhub_product_name |-> [t |-> "str", n |-> launch_cluster.product_id],
     rhub_region_id |-> [t |-> "int", n |-> launch_cluster.region_id],
     rhub_region_name |-> [t |-> "str", n |-> launch_cluster.region_id],
     rhub_user_id |-> [t |-> "str", n |-> launch_cluster.user_id],
     rhub_user_name |-> [t |-> "str", n |-> launch_cluster.user_id]]

\* C19: the keys of tower_launch_extra_vars are the eight fixed identity
\* variables together with the keys of product_params; every product_params
\* entry appears with its own value, and every fixed variable that is not a
\* product_params key carries the cluster's identity value.
C19_ExtraVarsMergeProductParams ==
    extra_vars # <<>> =>
        /\ DOMAIN extra_vars = FixedVariables \cup DOMAIN launch_cluster.product_params
        /\ \A k \in DOMAIN launch_cluster.product_params :
              extra_vars[k] = launch_cluster.product_params[k]
        /\ \A k \in FixedVariables \ DOMAIN launch_cluster.product_params :
              extra_vars[k] = Identity[k]

\* C19 witness: product_params names rhub_cluster_id and node_count; the
\* launch variables carry both as given and the cluster's own name
C19_Witness ==
    /\ extra_vars # <<>>
    /\ DOMAIN launch_cluster.product_params = {"rhub_cluster_id", "node_count"}
    /\ extra_vars["rhub_cluster_id"] = launch_cluster.product_params["rhub_cluster_id"]
    /\ extra_vars["rhub_cluster_id"] # Identity["rhub_cluster_id"]
    /\ extra_vars["node_count"] = launch_cluster.product_params["node_count"]
    /\ extra_vars["rhub_cluster_name"] = Identity["rhub_cluster_name"]

====
